---- MODULE Spec2Model ----
(***************************************************************************)
(* A model of the image Processor of berryboylb/image-processor (package   *)
(* img): the pixel grid it holds, its chainable transforms, its quality    *)
(* and target-format settings and its terminal output operations.          *)
(*                                                                         *)
(* Strings the code inspects character by character (paths, format tags)   *)
(* are sequences of one-character strings.  A pixel grid is a record with  *)
(* its representation (kind), its bounds and its samples pix[x][y].        *)
(***************************************************************************)
EXTENDS Integers, Sequences, FiniteSets, TLC

VARIABLES Img, Quality, TargetFormat, fs, crashed, fused, last, setBy, run, scen, budget

vars == <<Img, Quality, TargetFormat, fs, crashed, fused, last, setBy, run, scen, budget>>

(***************************************************************************)
(* Bounds of the model.                                                    *)
(***************************************************************************)
\* largest width and height of an input grid of the general specifications
MaxDim == 2
\* the offset of the bounds of an input grid that is a sub-image
MaxOff == 1
\* calls made on one Processor in Spec
MaxCalls == 3
\* length up to which a run of one repeated mirror or rotation is counted
RunCap == 5
\* Brightness percentages drawn in SpecBright: -PctSpan .. PctSpan
PctSpan == 101

Min2(a, b) == IF a < b THEN a ELSE b
Max2(a, b) == IF a > b THEN a ELSE b

(***************************************************************************)
(* Strings.                                                                *)
(***************************************************************************)
UpperChars == <<"A","B","C","D","E","F","G","H","I","J","K","L","M",
                "N","O","P","Q","R","S","T","U","V","W","X","Y","Z">>
LowerChars == <<"a","b","c","d","e","f","g","h","i","j","k","l","m",
                "n","o","p","q","r","s","t","u","v","w","x","y","z">>

\* strings.ToLower, on the ASCII letters
ToLower(s) ==
  [i \in 1..Len(s) |->
     IF \E k \in 1..Len(UpperChars) : UpperChars[k] = s[i]
     THEN LowerChars[CHOOSE k \in 1..Len(UpperChars) : UpperChars[k] = s[i]]
     ELSE s[i]]

\* strings.TrimPrefix(s, ".")
TrimDot(s) == IF Len(s) > 0 /\ s[1] = "." THEN Tail(s) ELSE s

\* filepath.Ext: the suffix of the final path element from its last dot on
RECURSIVE ExtFrom(_, _)
ExtFrom(path, i) ==
  IF i < 1 \/ path[i] = "/" THEN <<>>
  ELSE IF path[i] = "." THEN SubSeq(path, i, Len(path))
  ELSE ExtFrom(path, i - 1)

Ext(path) == ExtFrom(path, Len(path))

fmtPNG  == <<"p","n","g">>
fmtJPEG == <<"j","p","e","g">>
fmtJPG  == <<"j","p","g">>
fmtGIF  == <<"g","i","f">>
fmtBMP  == <<"b","m","p">>
fmtTIFF == <<"t","i","f","f">>
fmtTIF  == <<"t","i","f">>
fmtXYZ  == <<"x","y","z">>
NoFormat == <<>>

(***************************************************************************)
(* Colours.  A sample of an RGBA grid is <<r, g, b, a>> and a sample of a  *)
(* Gray grid is <<y>>, each channel in 0..255.  A sample computed by a     *)
(* library routine whose arithmetic is not followed here (the resampling   *)
(* kernel, the glyph rasteriser) is Untracked.                             *)
(***************************************************************************)
ZeroRGBA == <<0, 0, 0, 0>>
ZeroGray == <<0>>
UntrackedRGBA == <<-1, -1, -1, -1>>
UntrackedGray == <<-1>>

IsTracked(s) == s[1] >= 0

\* color.Color.RGBA(): the 16-bit alpha-premultiplied channels
ColorRGBA(kind, s) ==
  IF kind = "Gray" THEN <<s[1] * 257, s[1] * 257, s[1] * 257, 65535>>
  ELSE <<s[1] * 257, s[2] * 257, s[3] * 257, s[4] * 257>>

\* color.GrayModel: (19595 r + 38470 g + 7471 b + 2^15) >> 24 on 16-bit
\* channels.  With r = 256 rh + rl the sum is 256 A + B, and its shift by 24
\* is (A + B >> 8) >> 16, which stays within 32 bits.
GrayOf(c) ==
  LET A == 19595 * (c[1] \div 256) + 38470 * (c[2] \div 256) + 7471 * (c[3] \div 256)
      B == 19595 * (c[1] % 256) + 38470 * (c[2] % 256) + 7471 * (c[3] % 256) + 32768
  IN  (A + (B \div 256)) \div 65536

\* dst.Set's conversion of a sample of a grid of kind `from` to the colour
\* model of a grid of kind `to` (color.RGBAModel, color.GrayModel)
ConvertSample(to, from, s) ==
  IF ~IsTracked(s) THEN (IF to = "Gray" THEN UntrackedGray ELSE UntrackedRGBA)
  ELSE IF to = from THEN s
  ELSE LET c == ColorRGBA(from, s) IN
       IF to = "Gray" THEN <<GrayOf(c)>>
       ELSE <<c[1] \div 256, c[2] \div 256, c[3] \div 256, c[4] \div 256>>

(***************************************************************************)
(* Pixel grids.                                                            *)
(***************************************************************************)
\* the nil image.Image
Nil == [kind |-> "nil", minX |-> 0, minY |-> 0, maxX |-> 0, maxY |-> 0, pix |-> <<>>]

\* image.Rect: a canonical rectangle, the coordinates swapped where needed
Rect(x0, y0, x1, y1) ==
  [minX |-> Min2(x0, x1), minY |-> Min2(y0, y1),
   maxX |-> Max2(x0, x1), maxY |-> Max2(y0, y1)]

Bounds(img) == [minX |-> img.minX, minY |-> img.minY, maxX |-> img.maxX, maxY |-> img.maxY]
Dx(b) == b.maxX - b.minX
Dy(b) == b.maxY - b.minY
IsEmpty(b) == b.minX >= b.maxX \/ b.minY >= b.maxY
InRect(b, x, y) == b.minX <= x /\ x < b.maxX /\ b.minY <= y /\ y < b.maxY

Xs(b) == b.minX..(b.maxX - 1)
Ys(b) == b.minY..(b.maxY - 1)

\* a grid of the given representation, bounds and samples
GridOf(kind, b, pix) ==
  [kind |-> kind, minX |-> b.minX, minY |-> b.minY, maxX |-> b.maxX, maxY |-> b.maxY,
   pix |-> pix]

ZeroOf(kind) == IF kind = "Gray" THEN ZeroGray ELSE ZeroRGBA

\* image.NewRGBA, image.NewGray: every sample zero
NewRGBA(b) == GridOf("RGBA", b, [x \in Xs(b) |-> [y \in Ys(b) |-> ZeroRGBA]])
NewGray(b) == GridOf("Gray", b, [x \in Xs(b) |-> [y \in Ys(b) |-> ZeroGray]])

At(img, x, y) == img.pix[x][y]

Width(img) == img.maxX - img.minX
Height(img) == img.maxY - img.minY

(***************************************************************************)
(* The coordinate maps of the mirror and rotation loops.  b is the bounds  *)
(* of the source grid.  XTarget(b, x, y) is the coordinate the iteration   *)
(* (x, y) hands to dst.Set; XSource(b, dx, dy) is the one iteration whose  *)
(* target is (dx, dy).                                                     *)
(***************************************************************************)
Rotate180Target(b, x, y) == <<b.maxX - 1 - x, b.maxY - 1 - y>>
Rotate180Source(b, dx, dy) == <<b.maxX - 1 - dx, b.maxY - 1 - dy>>

Rotate90Target(b, x, y) == <<b.maxY - 1 - y, x>>
Rotate90Source(b, dx, dy) == <<dy, b.maxY - 1 - dx>>

FlipHorizontalTarget(b, x, y) == <<b.maxX - 1 - x, y>>
FlipHorizontalSource(b, dx, dy) == <<b.maxX - 1 - dx, dy>>

FlipVerticalTarget(b, x, y) == <<x, b.maxY - 1 - y>>
FlipVerticalSource(b, dx, dy) == <<dx, b.maxY - 1 - dy>>

TargetOf(op, b, x, y) ==
  CASE op = "Rotate180" -> Rotate180Target(b, x, y)
    [] op = "Rotate90" -> Rotate90Target(b, x, y)
    [] op = "FlipHorizontal" -> FlipHorizontalTarget(b, x, y)
    [] op = "FlipVertical" -> FlipVerticalTarget(b, x, y)
    [] OTHER -> <<x, y>>

SourceOf(op, b, dx, dy) ==
  CASE op = "Rotate180" -> Rotate180Source(b, dx, dy)
    [] op = "Rotate90" -> Rotate90Source(b, dx, dy)
    [] op = "FlipHorizontal" -> FlipHorizontalSource(b, dx, dy)
    [] op = "FlipVertical" -> FlipVerticalSource(b, dx, dy)
    [] OTHER -> <<dx, dy>>

\* The grid the double loop of transform op leaves in a fresh grid of the
\* given kind and bounds db: the loop visits every (x, y) of src's bounds
\* once and calls dst.Set(target of (x, y), src.At(x, y)), and Set drops a
\* write that falls outside db.  The targets of one loop are pairwise
\* distinct, so the sample at (dx, dy) is the one written by the only
\* iteration aiming there (its target is checked to be (dx, dy)), when the
\* loop has that iteration, and stays zero otherwise.
Painted(kind, db, src, op) ==
  GridOf(kind, db,
    [dx \in Xs(db) |-> [dy \in Ys(db) |->
       LET s == SourceOf(op, Bounds(src), dx, dy) IN
         IF /\ InRect(Bounds(src), s[1], s[2])
            /\ TargetOf(op, Bounds(src), s[1], s[2]) = <<dx, dy>>
         THEN ConvertSample(kind, src.kind, At(src, s[1], s[2]))
         ELSE ZeroOf(kind)]])

(***************************************************************************)
(* The transforms, as functions of the current grid.                       *)
(***************************************************************************)
\* whether every sample of a non-empty grid is the same tracked value
IsUniform(img) ==
  LET s0 == At(img, img.minX, img.minY) IN
    /\ IsTracked(s0)
    /\ \A x \in Xs(img) : \A y \in Ys(img) : At(img, x, y) = s0

\* Resize: xdraw.CatmullRom.Scale over a fresh RGBA grid Rect(0,0,width,height).
\* The kernel returns at once when either rectangle is empty, leaving dst
\* zero.  Its weights are normalised, so a uniform source gives that sample;
\* any other resampled value is not followed.
ResizeImg(img, width, height) ==
  LET db == Rect(0, 0, width, height) IN
    IF IsEmpty(db) \/ IsEmpty(Bounds(img)) THEN NewRGBA(db)
    ELSE LET s == IF IsUniform(img)
                  THEN ConvertSample("RGBA", img.kind, At(img, img.minX, img.minY))
                  ELSE UntrackedRGBA
         IN  GridOf("RGBA", db, [x \in Xs(db) |-> [y \in Ys(db) |-> s]])

GrayscaleImgNoLuma(img) == Painted("RGBA", Bounds(img), img, "Grayscale")
GrayscaleImg(img) == Painted("Gray", Bounds(img), img, "Grayscale")

Rotate180Img(img) == Painted("RGBA", Bounds(img), img, "Rotate180")

Rotate90Img(img) ==
  Painted("RGBA", Rect(0, 0, Dy(Bounds(img)), Dx(Bounds(img))), img, "Rotate90")

FlipHorizontalImg(img) == Painted("RGBA", Bounds(img), img, "FlipHorizontal")

FlipVerticalImg(img) == Painted("RGBA", Bounds(img), img, "FlipVertical")

\* the advance of a glyph and the margin of the watermark, and the height of
\* the 7x13 face
GlyphAdvance == 7
Margin == 10
GlyphHeight == 13

\* Watermark: an RGBA copy of the grid (draw.Draw with draw.Src), then the
\* glyphs of text drawn from the dot (Max.X - len*7 - 10, Max.Y - 10).  The
\* glyph bitmaps are not followed: every sample of the band the glyph cells
\* can reach is untracked.
WatermarkImg(img, text) ==
  LET b == Bounds(img)
      dotX == b.maxX - Len(text) * GlyphAdvance - Margin
      dotY == b.maxY - Margin
      copy == Painted("RGBA", b, img, "Watermark")
  IN  GridOf("RGBA", b,
        [x \in Xs(b) |-> [y \in Ys(b) |->
           IF /\ dotX <= x /\ x < dotX + Len(text) * GlyphAdvance
              /\ dotY - GlyphHeight < y /\ y < dotY + GlyphHeight
           THEN UntrackedRGBA
           ELSE At(copy, x, y)]])

MaxChannel == 255
MaxPercent == 100

\* the clamp of Brightness's percentage
ClampPercent(percentage) ==
  IF percentage < -MaxPercent THEN -MaxPercent
  ELSE IF percentage > MaxPercent THEN MaxPercent
  ELSE percentage

\* adjust, with the product rounded before the sum: scale is the double
\* nearest percentage/100 and 255.0*scale rounds to the double nearest
\* 255*percentage/100, which is exact to one part in 10^13, so newVal is
\* (100 val + 255 percentage) / 100 and uint8() truncates it.
AdjustRounded(val, percentage) ==
  LET num == 100 * val + MaxChannel * percentage IN
    IF num > 100 * MaxChannel THEN MaxChannel
    ELSE IF num < 0 THEN 0
    ELSE num \div 100

\* Whether the fused sum val + 255.0*scale falls short of the integer k it
\* would be exactly: the doubles nearest 0.2, 0.4 and 0.8 lie above them (by
\* 1.1e-17, 2.2e-17 and 4.4e-17), so for percentages -20, -40 and -80 the
\* unrounded product lies below the integer 255*percentage/100 by 2.8e-15,
\* 5.7e-15 and 1.1e-14, more than half the spacing of the doubles below k
\* while k <= 32, 64 and 128.  For every other percentage the product is
\* exact, lies above its integer, or is not near an integer.
FusedFallsShort(percentage, k) ==
  \/ percentage = -20 /\ 1 <= k /\ k <= 32
  \/ percentage = -40 /\ 1 <= k /\ k <= 64
  \/ percentage = -80 /\ 1 <= k /\ k <= 128

\* adjust, with the multiplication and the addition fused into one operation
\* rounded once, as the language lets a compiler do
AdjustFused(val, percentage) ==
  LET num == 100 * val + MaxChannel * percentage IN
    IF num % 100 = 0 /\ FusedFallsShort(percentage, num \div 100)
    THEN (num \div 100) - 1
    ELSE AdjustRounded(val, percentage)

\* adjust(val) of Brightness, percentage already clamped; fma tells whether
\* the build fuses the multiply-add
Adjust(val, percentage, fma) ==
  IF fma THEN AdjustFused(val, percentage) ELSE AdjustRounded(val, percentage)

BrightSample(kind, s, percentage, fma) ==
  IF ~IsTracked(s) THEN UntrackedRGBA
  ELSE LET c == ColorRGBA(kind, s) IN
       <<Adjust(c[1] \div 256, percentage, fma),
         Adjust(c[2] \div 256, percentage, fma),
         Adjust(c[3] \div 256, percentage, fma),
         c[4] \div 256>>

BrightnessImg(img, percentage, fma) ==
  LET b == Bounds(img)
      pct == ClampPercent(percentage)
  IN  GridOf("RGBA", b,
        [x \in Xs(b) |-> [y \in Ys(b) |-> BrightSample(img.kind, At(img, x, y), pct, fma)]])

(***************************************************************************)
(* Encoding.  What an encoder writes is recorded as the codec, the size,   *)
(* the number of channels and the codec's parameter.                       *)
(***************************************************************************)
NoData == [codec |-> "none", w |-> 0, h |-> 0, channels |-> 0, param |-> 0]
\* the content of a file that was there before the Processor was made
OldData == [codec |-> "old", w |-> 0, h |-> 0, channels |-> 0, param |-> 0]

DefaultQuality == 90
\* png.BestSpeed below or at, png.BestCompression at or above
PngFastMax == 25
PngBestMin == 76
\* the values of png.DefaultCompression, png.BestSpeed, png.BestCompression
DefaultCompression == 0
BestSpeed == -2
BestCompression == -3

\* the switch of Encode on the normalised tag
Dispatch(format) ==
  IF format = fmtJPG \/ format = fmtJPEG THEN "jpeg"
  ELSE IF format = fmtPNG THEN "png"
  ELSE IF format = fmtGIF THEN "gif"
  ELSE IF format = fmtBMP THEN "bmp"
  ELSE IF format = fmtTIFF \/ format = fmtTIF THEN "tiff"
  ELSE "none"

PngLevel(quality) ==
  IF quality <= PngFastMax THEN BestSpeed
  ELSE IF quality >= PngBestMin THEN BestCompression
  ELSE DefaultCompression

\* the codec's parameter: the JPEG quality, the PNG compression level
CodecParam(codec, quality) ==
  IF codec = "jpeg" THEN quality
  ELSE IF codec = "png" THEN PngLevel(quality)
  ELSE 0

HasUntracked(img) == \E x \in Xs(img) : \E y \in Ys(img) : ~IsTracked(At(img, x, y))
Opaque(img) == \A x \in Xs(img) : \A y \in Ys(img) : At(img, x, y)[4] = MaxChannel

\* The channels the codec stores for the grid: one for a Gray grid and for a
\* GIF's palette index; for an RGBA grid three in a JPEG, four in a TIFF, and
\* in a PNG or BMP three when the grid is opaque and four otherwise (-1 when
\* the alpha samples are not followed).
Channels(img, codec) ==
  IF img.kind = "Gray" \/ codec = "gif" THEN 1
  ELSE IF codec = "jpeg" THEN 3
  ELSE IF codec = "tiff" THEN 4
  ELSE IF HasUntracked(img) THEN -1
  ELSE IF Opaque(img) THEN 3 ELSE 4

\* One codec's Encode(w, p.Img, ...): a nil image panics at m.Bounds(), the
\* PNG encoder refuses an empty image before it writes, otherwise the image
\* is written.
CodecEncode(img, quality, codec) ==
  IF img = Nil THEN [err |-> "panic", codec |-> codec, out |-> NoData]
  ELSE IF codec = "png" /\ IsEmpty(Bounds(img))
  THEN [err |-> "encode", codec |-> codec, out |-> NoData]
  ELSE [err |-> "none", codec |-> codec,
        out |-> [codec |-> codec, w |-> Width(img), h |-> Height(img),
                 channels |-> Channels(img, codec),
                 param |-> CodecParam(codec, quality)]]

\* Processor.Encode(w, format): the error, the codec dispatched to and the
\* bytes that reached w
EncodeResult(img, quality, target, format) ==
  LET f1 == IF format = NoFormat THEN target ELSE format
      f2 == TrimDot(ToLower(f1))
      codec == Dispatch(f2)
  IN  IF codec = "none"
      THEN [err |-> "unsupported", codec |-> "none", out |-> NoData]
      ELSE CodecEncode(img, quality, codec)

\* Processor.ToBytes(format)
ToBytesResult(img, quality, target, format) ==
  LET f1 == IF format = NoFormat THEN target ELSE format IN
    IF f1 = NoFormat
    THEN [err |-> "noformat", codec |-> "none", out |-> NoData]
    ELSE EncodeResult(img, quality, target, f1)

(***************************************************************************)
(* Files.  The file system is one flat directory with the subdirectory     *)
(* d.x; os.Create fails for a path into a directory that does not exist.   *)
(***************************************************************************)
Absent == [exists |-> FALSE, data |-> NoData]
OldFile == [exists |-> TRUE, data |-> OldData]

pathPNG == <<"a", ".", "p", "n", "g">>
pathJPG == <<"a", ".", "J", "P", "G">>
pathXYZ == <<"a", ".", "x", "y", "z">>
pathNoExt == <<"d", ".", "x", "/", "a">>
pathNoDir == <<"q", "/", "a", ".", "b", "m", "p">>
\* "test_output.png" of TestImageProcessingFlow
pathTest == <<"t","e","s","t","_","o","u","t","p","u","t",".","p","n","g">>

Paths == {pathPNG, pathJPG, pathXYZ, pathNoExt, pathNoDir, pathTest}
Dirs == {<<"d", ".", "x">>}

\* the directory part of a path, <<>> when it has none
RECURSIVE DirFrom(_, _)
DirFrom(path, i) ==
  IF i < 1 THEN <<>>
  ELSE IF path[i] = "/" THEN SubSeq(path, 1, i - 1)
  ELSE DirFrom(path, i - 1)

\* whether os.Create(path) succeeds
Creatable(path) ==
  LET d == DirFrom(path, Len(path)) IN d = <<>> \/ d \in Dirs

\* Processor.Save(path) on the files fsys: the file is created or truncated
\* first, the format resolved next, and Encode writes into the file.
SaveFormatExtFirst(target, path) == IF Ext(path) = <<>> THEN target ELSE Ext(path)
SaveFormat(target, path) == IF target = NoFormat THEN Ext(path) ELSE target

SaveResult(img, quality, target, path, fsys) ==
  IF ~Creatable(path)
  THEN [err |-> "create", codec |-> "none", out |-> NoData, files |-> fsys]
  ELSE LET e == EncodeResult(img, quality, target, SaveFormat(target, path)) IN
       [err |-> e.err, codec |-> e.codec, out |-> e.out,
        files |-> [fsys EXCEPT ![path] = [exists |-> TRUE, data |-> e.out]]]

(***************************************************************************)
(* Loading.  Load(src) opens and decodes a local file; the sources are a   *)
(* fixed table: in.png decodes to SrcImage, nothing else exists.           *)
(***************************************************************************)
RGBAPalette == << <<255, 0, 0, 255>>, <<10, 200, 60, 255>>, <<0, 0, 0, 0>>, <<60, 90, 120, 128>> >>
GrayPalette == << <<0>>, <<255>>, <<76>>, <<60>> >>

\* an input grid of the given kind and size whose bounds start at (off, off)
\* and whose samples run through the palette
RampGrid(kind, off, w, h) ==
  GridOf(kind, Rect(off, off, off + w, off + h),
    [x \in off..(off + w - 1) |-> [y \in off..(off + h - 1) |->
       LET i == (((x - off) + w * (y - off)) % 4) + 1 IN
         IF kind = "Gray" THEN GrayPalette[i] ELSE RGBAPalette[i]]])

\* createTestImage: 200x200, every sample opaque red
TestSize == 200
ScenSize == 100
ScenQuality == 80
TestImage ==
  GridOf("RGBA", Rect(0, 0, TestSize, TestSize),
    [x \in 0..(TestSize - 1) |-> [y \in 0..(TestSize - 1) |-> <<255, 0, 0, 255>>]])

srcPNG == <<"i", "n", ".", "p", "n", "g">>
srcMissing == <<"n", "o", ".", "p", "n", "g">>
SrcImage == RampGrid("RGBA", 0, MaxDim, 1)

LoadResult(src) ==
  IF src = srcPNG THEN [err |-> "none", img |-> SrcImage]
  ELSE [err |-> "load", img |-> Nil]

(***************************************************************************)
(* The state machine.                                                      *)
(*   Img, Quality, TargetFormat   the Processor's fields                   *)
(*   fs        the files, by path                                          *)
(*   crashed   a call panicked (a nil image was dereferenced)              *)
(*   fused     whether the build fuses a float multiply-add                *)
(*   last      the last call: its arguments, its error, the codec it       *)
(*             dispatched to, what it wrote, the file and the grid before  *)
(*   setBy     the To<Format> method called last, "none" before any        *)
(*   run       the current run of one repeated mirror or rotation, with    *)
(*             the grid the run started from                               *)
(*   scen      the progress along the chain of TestImageProcessingFlow     *)
(*             (Resize(100,100), Grayscale, Rotate180, FlipVertical, Save);*)
(*             -1 off the chain                                            *)
(*   budget    the calls the specification still allows; negative: any     *)
(***************************************************************************)
CallRec(op) ==
  [op |-> op, path |-> <<>>, src |-> <<>>, fmt |-> <<>>, n1 |-> 0, n2 |-> 0,
   err |-> "none", codec |-> "none", out |-> NoData, fileBefore |-> Absent,
   before |-> Nil]

NoRun == [op |-> "none", n |-> 0, base |-> Nil]

MirrorOps == {"Rotate180", "Rotate90", "FlipHorizontal", "FlipVertical"}

RunAfter(op) ==
  IF op \notin MirrorOps THEN NoRun
  ELSE IF run.op = op THEN [run EXCEPT !.n = Min2(run.n + 1, RunCap)]
  ELSE [op |-> op, n |-> 1, base |-> Img]

ScenAfter(op, n1, n2) ==
  IF scen = 0 /\ op = "Resize" /\ n1 = ScenSize /\ n2 = ScenSize THEN 1
  ELSE IF scen = 1 /\ op = "Grayscale" THEN 2
  ELSE IF scen = 2 /\ op = "Rotate180" THEN 3
  ELSE IF scen = 3 /\ op = "FlipVertical" THEN 4
  ELSE -1

Spend ==
  /\ ~crashed
  /\ budget # 0
  /\ budget' = IF budget > 0 THEN budget - 1 ELSE budget

\* NewProcessor(img)
InitWith(img, files, fma, b) ==
  /\ Img = img
  /\ Quality = DefaultQuality
  /\ TargetFormat = NoFormat
  /\ fs = files
  /\ crashed = FALSE
  /\ fused = fma
  /\ last = CallRec("NewProcessor")
  /\ setBy = "none"
  /\ run = NoRun
  /\ scen = (IF img = TestImage THEN 0 ELSE -1)
  /\ budget = b

\* A transform: p.Img.Bounds() on a nil image panics before anything is
\* computed; otherwise the new grid replaces the current one.
Transform(op, n1, n2, result) ==
  /\ IF Img = Nil
     THEN /\ crashed' = TRUE
          /\ Img' = Img
          /\ run' = run
          /\ scen' = scen
          /\ last' = [CallRec(op) EXCEPT !.n1 = n1, !.n2 = n2, !.err = "panic"]
     ELSE /\ crashed' = FALSE
          /\ Img' = result
          /\ run' = RunAfter(op)
          /\ scen' = ScenAfter(op, n1, n2)
          /\ last' = [CallRec(op) EXCEPT !.n1 = n1, !.n2 = n2, !.before = Img]
  /\ UNCHANGED <<Quality, TargetFormat, fs, fused, setBy>>

Resize(width, height) ==
  /\ Spend
  /\ Transform("Resize", width, height, ResizeImg(Img, width, height))

Grayscale ==
  /\ Spend
  /\ Transform("Grayscale", 0, 0, GrayscaleImg(Img))

Watermark(text) ==
  /\ Spend
  /\ Transform("Watermark", Len(text), 0, WatermarkImg(Img, text))

Rotate180 ==
  /\ Spend
  /\ Transform("Rotate180", 0, 0, Rotate180Img(Img))

Rotate90 ==
  /\ Spend
  /\ Transform("Rotate90", 0, 0, Rotate90Img(Img))

FlipHorizontal ==
  /\ Spend
  /\ Transform("FlipHorizontal", 0, 0, FlipHorizontalImg(Img))

FlipVertical ==
  /\ Spend
  /\ Transform("FlipVertical", 0, 0, FlipVerticalImg(Img))

Brightness(percentage) ==
  /\ Spend
  /\ Transform("Brightness", percentage, 0, BrightnessImg(Img, percentage, fused))

MinQuality == 1
MaxQuality == 100

ClampQualityNoFloor(quality) == IF quality > MaxQuality THEN MaxQuality ELSE quality
ClampQuality(quality) ==
  IF quality < MinQuality THEN MinQuality
  ELSE IF quality > MaxQuality THEN MaxQuality
  ELSE quality

SetQuality(quality) ==
  /\ Spend
  /\ Quality' = ClampQuality(quality)
  /\ last' = [CallRec("SetQuality") EXCEPT !.n1 = quality]
  /\ UNCHANGED <<Img, TargetFormat, fs, crashed, fused, setBy, run, scen>>

ToPNG ==
  /\ Spend
  /\ TargetFormat' = fmtPNG
  /\ last' = [CallRec("ToPNG") EXCEPT !.fmt = fmtPNG]
  /\ setBy' = "ToPNG"
  /\ UNCHANGED <<Img, Quality, fs, crashed, fused, run, scen>>

ToJPEG ==
  /\ Spend
  /\ TargetFormat' = fmtJPEG
  /\ last' = [CallRec("ToJPEG") EXCEPT !.fmt = fmtJPEG]
  /\ setBy' = "ToJPEG"
  /\ UNCHANGED <<Img, Quality, fs, crashed, fused, run, scen>>

ToGIF ==
  /\ Spend
  /\ TargetFormat' = fmtGIF
  /\ last' = [CallRec("ToGIF") EXCEPT !.fmt = fmtGIF]
  /\ setBy' = "ToGIF"
  /\ UNCHANGED <<Img, Quality, fs, crashed, fused, run, scen>>

ToBMP ==
  /\ Spend
  /\ TargetFormat' = fmtBMP
  /\ last' = [CallRec("ToBMP") EXCEPT !.fmt = fmtBMP]
  /\ setBy' = "ToBMP"
  /\ UNCHANGED <<Img, Quality, fs, crashed, fused, run, scen>>

ToTIFF ==
  /\ Spend
  /\ TargetFormat' = fmtTIFF
  /\ last' = [CallRec("ToTIFF") EXCEPT !.fmt = fmtTIFF]
  /\ setBy' = "ToTIFF"
  /\ UNCHANGED <<Img, Quality, fs, crashed, fused, run, scen>>

Save(path) ==
  LET r == SaveResult(Img, Quality, TargetFormat, path, fs) IN
    /\ Spend
    /\ fs' = r.files
    /\ crashed' = (r.err = "panic")
    /\ last' = [CallRec("Save") EXCEPT !.path = path, !.err = r.err, !.codec = r.codec,
                                       !.out = r.out, !.fileBefore = fs[path]]
    /\ scen' = IF scen = 4 \/ scen = 5 THEN 5 ELSE scen
    /\ UNCHANGED <<Img, Quality, TargetFormat, fused, setBy, run>>

ToBytes(format) ==
  LET r == ToBytesResult(Img, Quality, TargetFormat, format) IN
    /\ Spend
    /\ crashed' = (r.err = "panic")
    /\ last' = [CallRec("ToBytes") EXCEPT !.fmt = format, !.err = r.err,
                                          !.codec = r.codec, !.out = r.out]
    /\ UNCHANGED <<Img, Quality, TargetFormat, fs, fused, setBy, run, scen>>

Encode(format) ==
  LET r == EncodeResult(Img, Quality, TargetFormat, format) IN
    /\ Spend
    /\ crashed' = (r.err = "panic")
    /\ last' = [CallRec("Encode") EXCEPT !.fmt = format, !.err = r.err,
                                         !.codec = r.codec, !.out = r.out]
    /\ UNCHANGED <<Img, Quality, TargetFormat, fs, fused, setBy, run, scen>>

\* Convert(src, dst): Load, then Save on a fresh Processor
Convert(src, dst) ==
  LET l == LoadResult(src)
      r == SaveResult(l.img, DefaultQuality, NoFormat, dst, fs)
  IN  /\ Spend
      /\ IF l.err # "none"
         THEN /\ fs' = fs
              /\ last' = [CallRec("Convert") EXCEPT !.path = dst, !.src = src,
                                                    !.err = "load"]
         ELSE /\ fs' = r.files
              /\ last' = [CallRec("Convert") EXCEPT !.path = dst, !.src = src,
                                                    !.err = r.err, !.codec = r.codec,
                                                    !.out = r.out, !.fileBefore = fs[dst]]
      /\ UNCHANGED <<Img, Quality, TargetFormat, crashed, fused, setBy, run, scen>>

(***************************************************************************)
(* Spec: the Processor's transforms and settings, and one call of each     *)
(* output operation, on small inputs, MaxCalls calls deep.                 *)
(***************************************************************************)
\* the files at the start: some paths hold an older file, some nothing
StartFiles == [p \in Paths |-> IF p \in {pathPNG, pathXYZ} THEN OldFile ELSE Absent]

SpecImages == {Nil, RampGrid("RGBA", 0, MaxDim, 1), RampGrid("Gray", MaxOff, 1, MaxDim)}
QualityArgs == {-3, 0, 1, 80, 100, 150}
ResizeArgs == {<<1, MaxDim>>, <<0, 1>>, <<-1, -MaxDim>>}
WatermarkArgs == {<<"H", "i">>}

Init ==
  \E img \in SpecImages : \E fma \in BOOLEAN : InitWith(img, StartFiles, fma, MaxCalls)

Next ==
  \/ \E a \in ResizeArgs : Resize(a[1], a[2])
  \/ Grayscale
  \/ \E t \in WatermarkArgs : Watermark(t)
  \/ \E q \in QualityArgs : SetQuality(q)
  \/ Rotate180
  \/ Rotate90
  \/ FlipHorizontal
  \/ FlipVertical
  \/ \E pct \in {-20} : Brightness(pct)
  \/ ToPNG
  \/ ToJPEG
  \/ ToGIF
  \/ ToBMP
  \/ ToTIFF
  \/ Save(pathJPG)
  \/ ToBytes(NoFormat)
  \/ Encode(fmtXYZ)
  \/ Convert(srcPNG, pathXYZ)

Spec == Init /\ [][Next]_vars

(***************************************************************************)
(* SpecOut: the settings and the output operations over every path and     *)
(* format of the model, MaxOutCalls calls deep.                            *)
(***************************************************************************)
MaxOutCalls == 3

OutImages == {Nil, RampGrid("RGBA", 0, MaxDim, 1), RampGrid("Gray", 0, 1, 1)}
OutPaths == {pathPNG, pathJPG, pathXYZ, pathNoExt, pathNoDir}
OutFormats == {NoFormat, fmtXYZ, <<".", "G", "i", "f">>, fmtTIF}

InitOut == \E img \in OutImages : InitWith(img, StartFiles, FALSE, MaxOutCalls)

NextOut ==
  \/ SetQuality(ScenQuality)
  \/ ToPNG
  \/ ToJPEG
  \/ ToGIF
  \/ ToBMP
  \/ ToTIFF
  \/ \E path \in OutPaths : Save(path)
  \/ \E f \in OutFormats : ToBytes(f)
  \/ \E f \in OutFormats : Encode(f)
  \/ \E src \in {srcPNG, srcMissing} : \E dst \in {pathJPG, pathXYZ} : Convert(src, dst)

SpecOut == InitOut /\ [][NextOut]_vars

(***************************************************************************)
(* SpecGrid: the transforms alone, chained without limit, on every input   *)
(* grid of the model: both representations, every size up to MaxDim, with  *)
(* bounds that start at (0,0) and bounds that do not (a sub-image).        *)
(***************************************************************************)
GridImages ==
  {RampGrid(kind, off, w, h) :
     kind \in {"RGBA", "Gray"}, off \in {0, MaxOff}, w \in 1..MaxDim, h \in 1..MaxDim}

InitGrid ==
  \E img \in GridImages : \E fma \in BOOLEAN : InitWith(img, StartFiles, fma, -1)

NextGrid ==
  \/ \E a \in ResizeArgs : Resize(a[1], a[2])
  \/ Grayscale
  \/ \E t \in WatermarkArgs : Watermark(t)
  \/ Rotate180
  \/ Rotate90
  \/ FlipHorizontal
  \/ FlipVertical
  \/ \E pct \in {-20, 100} : Brightness(pct)

SpecGrid == InitGrid /\ [][NextGrid]_vars

(***************************************************************************)
(* SpecBright: one Brightness call, with every percentage of               *)
(* -PctSpan..PctSpan, on a one-sample grid of every channel value.         *)
(***************************************************************************)
BrightImages ==
  {GridOf("RGBA", Rect(0, 0, 1, 1),
          [x \in {0} |-> [y \in {0} |-> <<v, MaxChannel - v, (v + 128) % 256, a>>]]) :
     v \in 0..MaxChannel, a \in {128, MaxChannel}}
  \cup {GridOf("Gray", Rect(0, 0, 1, 1), [x \in {0} |-> [y \in {0} |-> <<v>>]]) :
          v \in 0..MaxChannel}

InitBright ==
  \E img \in BrightImages : \E fma \in BOOLEAN : InitWith(img, StartFiles, fma, 1)

NextBright == \E pct \in (-PctSpan)..PctSpan : Brightness(pct)

SpecBright == InitBright /\ [][NextBright]_vars

(***************************************************************************)
(* SpecA: the chain of TestImageProcessingFlow on the 200x200 red image of *)
(* createTestImage: the four transforms in the test's order, with          *)
(* SetQuality(80), ToPNG and Save("test_output.png") at any point.         *)
(***************************************************************************)
InitA == InitWith(TestImage, StartFiles, FALSE, -1)

NextA ==
  \/ scen = 0 /\ Resize(ScenSize, ScenSize)
  \/ scen = 1 /\ Grayscale
  \/ scen = 2 /\ Rotate180
  \/ scen = 3 /\ FlipVertical
  \/ SetQuality(ScenQuality)
  \/ ToPNG
  \/ Save(pathTest)

SpecA == InitA /\ [][NextA]_vars

(***************************************************************************)
(* Claims on the output operations and the settings.                       *)
(***************************************************************************)
TransformOps == {"Resize", "Grayscale", "Watermark", "Rotate180", "Rotate90",
                 "FlipHorizontal", "FlipVertical", "Brightness"}

\* the codec each To<Format> method asks for, and the codec the extension of
\* each path of the model names ("none": no codec)
CodecOfMethod ==
  [m \in {"ToPNG", "ToJPEG", "ToGIF", "ToBMP", "ToTIFF"} |->
     CASE m = "ToPNG" -> "png" [] m = "ToJPEG" -> "jpeg" [] m = "ToGIF" -> "gif"
       [] m = "ToBMP" -> "bmp" [] m = "ToTIFF" -> "tiff"]
CodecOfPath ==
  [p \in Paths |->
     CASE p = pathPNG -> "png" [] p = pathJPG -> "jpeg" [] p = pathNoDir -> "bmp"
       [] p = pathTest -> "png" [] OTHER -> "none"]

\* C1: a Save that got as far as its file encodes with the codec of the
\* To<Format> method called last, whatever the extension of the path says,
\* and with the codec the extension names only when no To<Format> method was
\* ever called.
C1_FormatPrecedence ==
  (last.op = "Save" /\ last.err # "create") =>
    last.codec = IF setBy = "none" THEN CodecOfPath[last.path] ELSE CodecOfMethod[setBy]

\* a Save to a.JPG after ToGIF (the last To<Format> call) wrote a GIF
C1_Witness ==
  /\ last.op = "Save" /\ last.path = pathJPG /\ setBy = "ToGIF"
  /\ last.err = "none" /\ last.codec = "gif"
  /\ fs[pathJPG].exists /\ fs[pathJPG].data.codec = "gif"

\* C2: an unsupported format is reported as such and nothing is written:
\* Save and Convert leave the file at the destination as it was (neither
\* created nor truncated), ToBytes and Encode pass no byte on.
C2_UnsupportedWritesNothing ==
  /\ (last.op \in {"Save", "Convert"} /\ last.err = "unsupported") =>
       fs[last.path] = last.fileBefore
  /\ (last.op \in {"ToBytes", "Encode"} /\ last.err = "unsupported") =>
       last.out = NoData
  /\ (/\ last.op \in {"Save", "Convert"}
      /\ last.err \notin {"create", "load"}
      /\ setBy = "none" /\ CodecOfPath[last.path] = "none"
      /\ last.path = pathXYZ) => last.err = "unsupported"

\* C3: a terminal operation whose format resolution ends with no format at
\* all (ToBytes("") or Encode(w, "") with no target format; Save with no
\* target format to a path without extension) fails with "no format
\* specified", never with another error.
NoFormatResolved ==
  \/ last.op \in {"ToBytes", "Encode"} /\ last.fmt = NoFormat /\ setBy = "none"
  \/ last.op = "Save" /\ last.path = pathNoExt /\ setBy = "none"

C3_MissingFormat == NoFormatResolved => last.err = "noformat"

\* C4: the quality is always in 1..100, SetQuality(q) leaves
\* max(1, min(100, q)), and no other operation changes the quality.
C4_QualityClamp ==
  /\ [](/\ Quality \in 1..100
        /\ last.op = "SetQuality" =>
             Quality = Max2(1, Min2(100, last.n1)))
  /\ [][Quality' # Quality => last'.op = "SetQuality"]_vars

\* SetQuality(0) after a transform left quality 1
C4_Witness ==
  /\ last.op = "SetQuality" /\ last.n1 = 0 /\ Quality = 1
  /\ Img # Nil /\ run.n > 0

(***************************************************************************)
(* Claims on the transforms.                                               *)
(***************************************************************************)
\* the colour of a sample, whatever the representation of its grid
Colour(kind, s) == IF IsTracked(s) THEN ColorRGBA(kind, s) ELSE UntrackedRGBA

\* the sample of grid g at the coordinate (x, y) counted from g's corner
ColourAt(g, x, y) == Colour(g.kind, At(g, g.minX + x, g.minY + y))

\* the same size and, at every coordinate counted from the corner, the same
\* colour
SameLayout(g, h) ==
  /\ Width(g) = Width(h) /\ Height(g) = Height(h)
  /\ \A x \in 0..(Width(g) - 1) : \A y \in 0..(Height(g) - 1) :
       ColourAt(g, x, y) = ColourAt(h, x, y)

\* the same bounds and, at every coordinate, the same colour
SameGrid(g, h) == Bounds(g) = Bounds(h) /\ SameLayout(g, h)

ScenarioSaved ==
  scen = 5 /\ last.op = "Save" /\ last.codec = "png" /\ last.err = "none"

\* C5 as stated: after Resize(100,100), Grayscale, Rotate180, FlipVertical on
\* the 200x200 image, Save as PNG is handed a 100x100 grid in the
\* single-channel representation and writes a 100x100 single-channel PNG.
C5_ScenarioSingleChannel ==
  ScenarioSaved =>
    /\ Width(Img) = 100 /\ Height(Img) = 100 /\ Img.kind = "Gray"
    /\ fs[pathTest].data.w = 100 /\ fs[pathTest].data.h = 100
    /\ fs[pathTest].data.channels = 1

\* C5 amended: the grid handed to the encoder is 100x100 and full-colour
\* with red = green = blue and alpha 255 at every sample, and the file is a
\* 100x100 three-channel PNG; the single-channel representation lasts only
\* from Grayscale to Rotate180.
C5_ScenarioGrayValuedRGBA ==
  /\ scen = 2 => Img.kind = "Gray" /\ Width(Img) = 100 /\ Height(Img) = 100
  /\ scen \in {3, 4} => Img.kind = "RGBA"
  /\ ScenarioSaved =>
       /\ Width(Img) = 100 /\ Height(Img) = 100 /\ Img.kind = "RGBA"
       /\ \A x \in Xs(Img) : \A y \in Ys(Img) :
            LET c == At(Img, x, y) IN c[1] = c[2] /\ c[2] = c[3] /\ c[4] = 255
       /\ fs[pathTest].exists
       /\ fs[pathTest].data.codec = "png"
       /\ fs[pathTest].data.w = 100 /\ fs[pathTest].data.h = 100
       /\ fs[pathTest].data.channels = 3

\* the chain was run and saved after SetQuality(80) and ToPNG, as in the test
C5_Witness ==
  /\ ScenarioSaved /\ Quality = 80 /\ setBy = "ToPNG"
  /\ run.op = "FlipVertical" /\ fs[pathTest].exists

\* C6: a transform invoked on a Processor without a grid ends in an error
\* returned to the caller: no crash, no grid installed.
C6_AbsentGridError ==
  (last.op \in TransformOps /\ Img = Nil) =>
    (~crashed /\ last.err \notin {"none", "panic"})

\* C7: Resize with a width or height <= 0 is rejected as a validation error
\* and leaves the grid as it was; with both positive the new grid is exactly
\* width x height.
C7_ResizeValidation ==
  (last.op = "Resize" /\ last.before # Nil) =>
    IF last.n1 <= 0 \/ last.n2 <= 0
    THEN last.err = "validation" /\ Img = last.before
    ELSE last.err = "none" /\ Width(Img) = last.n1 /\ Height(Img) = last.n2

\* C8: Rotate90 of a W x H grid gives an H x W grid whose sample (H-1-y, x)
\* is the source's sample (x, y), and four Rotate90 in a row give back the
\* size and every sample of the grid they started from.
C8_Rotate90 ==
  /\ (last.op = "Rotate90" /\ last.err = "none") =>
       LET src == last.before
           W == Width(src)
           H == Height(src)
       IN  /\ Width(Img) = H /\ Height(Img) = W
           /\ \A x \in 0..(W - 1) : \A y \in 0..(H - 1) :
                ColourAt(Img, H - 1 - y, x) = ColourAt(src, x, y)
  /\ (run.op = "Rotate90" /\ run.n = 4) => SameLayout(Img, run.base)

\* C9: two Rotate180, two FlipHorizontal or two FlipVertical in a row give
\* back the grid they started from: its bounds and every sample.
C9_MirrorInvolutions ==
  (run.op \in {"Rotate180", "FlipHorizontal", "FlipVertical"} /\ run.n = 2) =>
    SameGrid(Img, run.base)

\* the 8-bit channels of a sample
Chan8(kind, s) == IF kind = "Gray" THEN <<s[1], s[1], s[1], 255>> ELSE s

\* c is v + 255 p / 100, cut to a whole number and clamped to 0..255
IsBrightened(v, p, c) ==
  LET num == 100 * v + 255 * p IN
    IF num >= 25500 THEN c = 255
    ELSE IF num <= 0 THEN c = 0
    ELSE 100 * c <= num /\ num < 100 * (c + 1)

\* C10: Brightness(p) leaves in each colour channel the value
\* clamp(v + 255 p'/100, 0, 255) with p' = p clamped to -100..100, so 255
\* for p >= 100, 0 for p <= -100 and v for p = 0; alpha is kept.
C10_BrightnessBoundary ==
  (last.op = "Brightness" /\ last.err = "none") =>
    \A x \in Xs(Img) : \A y \in Ys(Img) :
      LET s == At(last.before, x, y)
          v == Chan8(last.before.kind, s)
          c == At(Img, x, y)
          p == Max2(-100, Min2(100, last.n1))
      IN  IsTracked(s) =>
            /\ \A i \in 1..3 :
                 /\ c[i] \in 0..255
                 /\ IsBrightened(v[i], p, c[i])
                 /\ last.n1 >= 100 => c[i] = 255
                 /\ last.n1 <= -100 => c[i] = 0
                 /\ last.n1 = 0 => c[i] = v[i]
            /\ c[4] = v[4]

\* C11: for every input grid, also one whose bounds do not start at (0,0),
\* each write of Rotate180, Rotate90, FlipHorizontal and FlipVertical aims
\* at a coordinate inside the destination's bounds, so every source sample
\* is found in the result at the coordinate it was written to.
C11_WritesInBounds ==
  (last.op \in MirrorOps /\ last.err = "none") =>
    LET src == last.before IN
      \A x \in Xs(src) : \A y \in Ys(src) :
        LET t == TargetOf(last.op, Bounds(src), x, y) IN
          /\ InRect(Bounds(Img), t[1], t[2])
          /\ Colour(Img.kind, At(Img, t[1], t[2])) = Colour(src.kind, At(src, x, y))

====
